---- MODULE Spec2Model ----
(***************************************************************************)
(* A model of the period/event projection engine of fadable-calendar:      *)
(* backend/periods.py (Period, WeekPeriod, MonthPeriod, YearPeriod),       *)
(* backend/widgets.py (count and density widgets), backend/period_db.py    *)
(* (PeriodDB), backend/backend.py (BackendState, Backend) and              *)
(* backend/fadable_calendar/event.py (Event.capture_recurrences).          *)
(*                                                                         *)
(* A date is its proleptic Gregorian ordinal (datetime.date.toordinal()),  *)
(* a datetime is a record [date, min] (minute of the day; all datetimes    *)
(* of one run share one timezone and have zero seconds).                   *)
(***************************************************************************)
EXTENDS Integers, Sequences, FiniteSets, TLC

VARIABLES
    calendars,        \* the calendar list shared by every Period (Period._calendars)
    db_colors,        \* the colors handed to a constructed Period (calendar_colors)
    period,           \* the Period object under observation, or NoPeriod
    req,              \* the arguments of the last from_any_date call
    trail,            \* the Periods visited since construction, oldest first
    path,             \* the navigation properties applied since construction
    first_timed,      \* what the first timed_events access of `period` returned
    last_timed,       \* what the latest timed_events access of `period` returned
    accesses,         \* number of timed_events accesses of `period` (capped)
    exc_before,       \* Period._exception_dates when the latest access started
    exc_read,         \* what the latest exception_dates access returned
    strip,            \* what the latest _generate_day_strip_html returned
    raised,           \* the latest call that can raise, and the exception it
                      \* left with or NoError
    captured,         \* what the latest Event.capture_recurrences returned
    counts,           \* the _core values a widget computes over: this period's
                      \* and those of the lookback periods
    widget,           \* what the latest widget computation returned
    lookback_periods, \* the lookback_periods of the latest EventDensityWidget.render
    state,            \* the BackendState of the Backend, or NoState
    store,            \* PeriodDB._periods: (period_type, date) -> Period object
    built,            \* from_any_date calls PeriodDB.get made, per key
    first_got,        \* the object the first get of each key returned
    last_got,         \* the key and the object of the latest get
    rendered,         \* the date and the Period of the latest rendering
    assigned          \* per calendar of the store, the color it was added with

period_vars == << period, req, trail, path, first_timed, last_timed, accesses,
                  exc_before, exc_read, strip, raised, captured >>

widget_vars == << counts, widget, lookback_periods >>

db_vars == << state, store, built, first_got, last_got, rendered, assigned >>

vars == << calendars, db_colors, period_vars, widget_vars, db_vars >>

(***************************************************************************)
(* datetime.date: ordinals, year/month/day, weekday, replace               *)
(***************************************************************************)
Max(a, b) == IF a >= b THEN a ELSE b
Min(a, b) == IF a <= b THEN a ELSE b

IsLeap(y) == y % 4 = 0 /\ (y % 100 # 0 \/ y % 400 = 0)

DaysInMonth(y, m) ==
    IF m = 2 THEN (IF IsLeap(y) THEN 29 ELSE 28)
    ELSE IF m \in {4, 6, 9, 11} THEN 30 ELSE 31

RECURSIVE DaysBeforeMonth(_, _)
DaysBeforeMonth(y, m) ==
    IF m <= 1 THEN 0 ELSE DaysBeforeMonth(y, m - 1) + DaysInMonth(y, m - 1)

DaysBeforeYear(y) ==
    LET p == y - 1 IN p * 365 + (p \div 4) - (p \div 100) + (p \div 400)

DaysInYear(y) == IF IsLeap(y) THEN 366 ELSE 365

\* date(y, m, d).toordinal()
Ord(y, m, d) == DaysBeforeYear(y) + DaysBeforeMonth(y, m) + d

\* date.fromordinal(n).year : the year y with Ord(y,1,1) <= n < Ord(y+1,1,1)
YearOf(n) ==
    LET guess == ((n - 1) * 400) \div 146097 + 1
    IN  IF n > DaysBeforeYear(guess + 1) THEN guess + 1
        ELSE IF n <= DaysBeforeYear(guess) THEN guess - 1
        ELSE guess

RECURSIVE MonthFrom(_, _, _)
MonthFrom(y, m, rest) ==
    IF rest <= DaysInMonth(y, m) THEN m ELSE MonthFrom(y, m + 1, rest - DaysInMonth(y, m))

MonthOf(n) == LET y == YearOf(n) IN MonthFrom(y, 1, n - DaysBeforeYear(y))

DayOf(n) ==
    LET y == YearOf(n) IN n - DaysBeforeYear(y) - DaysBeforeMonth(y, MonthOf(n))

\* date.weekday(): Monday = 0 ... Sunday = 6
Weekday(n) == (n + 6) % 7

(***************************************************************************)
(* Period construction (periods.py)                                        *)
(***************************************************************************)
NoPeriod == [kind |-> "none"]

Kinds == {"week", "month", "year"}

\* Period.__init__: a fresh object; _exception_dates starts empty
PeriodInit(kind, start_date, end_date, colors) ==
    [kind |-> kind, start_date |-> start_date, end_date |-> end_date,
     calendar_colors |-> colors, exception_dates |-> {}]

DefaultColors == [i \in 1..Len(calendars) |-> "#777777"]

\* WeekPeriod.__init__
WeekPeriodInit(start_date, start_of_week, colors) ==
    LET delta_days == (Weekday(start_date) - start_of_week) % 7
        start      == start_date - delta_days
        end_date   == start + 6
    IN  PeriodInit("week", start, end_date, colors)

\* MonthPeriod.__init__
MonthPeriodInit(start_date, colors) ==
    LET y     == YearOf(start_date)
        m     == MonthOf(start_date)
        start == Ord(y, m, 1)
        end_date == IF m = 12 THEN Ord(y + 1, 1, 31)
                    ELSE Ord(y, m + 1, 1) - 1
    IN  PeriodInit("month", start, end_date, colors)

\* YearPeriod.__init__
YearPeriodInit(start_date, colors) ==
    LET y     == YearOf(start_date)
        start == Ord(y, 1, 1)
        end_date == Ord(y + 1, 1, 1) - 1
    IN  PeriodInit("year", start, end_date, colors)

\* WeekPeriod.from_any_date with the difference of the weekdays taken the
\* other way round
WeekFromAnyDateReversed(any_date, start_of_week, colors) ==
    LET delta_days == (start_of_week - Weekday(any_date)) % 7
        start_date == any_date - delta_days
    IN  WeekPeriodInit(start_date, start_of_week, colors)

\* WeekPeriod.from_any_date
WeekFromAnyDate(any_date, start_of_week, colors) ==
    LET delta_days == (Weekday(any_date) - start_of_week) % 7
        start_date == any_date - delta_days
    IN  WeekPeriodInit(start_date, start_of_week, colors)

\* MonthPeriod.from_any_date
MonthFromAnyDate(any_date, colors) ==
    MonthPeriodInit(Ord(YearOf(any_date), MonthOf(any_date), 1), colors)

\* YearPeriod.from_any_date
YearFromAnyDate(any_date, colors) ==
    YearPeriodInit(Ord(YearOf(any_date), 1, 1), colors)

\* period_type.from_any_date(any_date, start_of_week, calendars, calendar_colors)
FromAnyDate(kind, any_date, start_of_week, colors) ==
    CASE kind = "week"  -> WeekFromAnyDate(any_date, start_of_week, colors)
      [] kind = "month" -> MonthFromAnyDate(any_date, colors)
      [] kind = "year"  -> YearFromAnyDate(any_date, colors)

\* The from_any_date arguments that <kind>.from_start_date passes on: a week
\* trusts start_date's weekday and keeps the colors, a month or a year passes
\* neither start_of_week (default 0) nor calendar_colors (default None).
StartDateRequest(kind, start_date, colors) ==
    IF kind = "week"
    THEN [kind |-> kind, any_date |-> start_date,
          start_of_week |-> Weekday(start_date), colors |-> colors]
    ELSE [kind |-> kind, any_date |-> start_date,
          start_of_week |-> 0, colors |-> DefaultColors]

Build(r) == FromAnyDate(r.kind, r.any_date, r.start_of_week, r.colors)

\* <kind>.from_start_date
FromStartDate(kind, start_date, colors) ==
    Build(StartDateRequest(kind, start_date, colors))

\* Period.previous_period: the start date handed to from_start_date
PreviousStartDate(p) ==
    LET delta == p.end_date - p.start_date + 1
    IN  p.start_date - delta

\* Period.next_period: the start date handed to from_start_date
NextStartDate(p) ==
    LET delta == p.end_date - p.start_date + 1
    IN  p.start_date + delta

PreviousPeriod(p) == FromStartDate(p.kind, PreviousStartDate(p), p.calendar_colors)
NextPeriod(p)     == FromStartDate(p.kind, NextStartDate(p), p.calendar_colors)

(***************************************************************************)
(* Period.timed_events (periods.py)                                        *)
(*                                                                         *)
(* An event is [begin, duration, all_day, rrule, exdates]: begin a          *)
(* datetime, duration in minutes, rrule "" (no RRULE property), "DAILY" or *)
(* "WEEKLY", or "MALFORMED" (a text rrulestr rejects); exdates the         *)
(* sequence of its EXDATE properties, each [date_only, date, min, suffix]  *)
(* (an 8-character value, or a value with a time; suffix is what follows   *)
(* the seconds in the value, "" or "Z").                                   *)
(***************************************************************************)
MinutesPerDay == 24 * 60

NoError == ""

\* datetime + timedelta(minutes)
AddMinutes(dt, minutes) ==
    [date |-> dt.date + ((dt.min + minutes) \div MinutesPerDay),
     min  |-> (dt.min + minutes) % MinutesPerDay]

\* event.end
EventEnd(event) == AddMinutes(event.begin, event.duration)

\* datetime.strptime(prop.value, "%Y%m%d") or (..., "%Y%m%dT%H%M%S"): a
\* date-only value parses to midnight of that date
ParseExdate(prop) ==
    [date |-> prop.date, min |-> IF prop.date_only THEN 0 ELSE prop.min]

\* strptime raises ValueError ("unconverted data remains") on a value that
\* goes on after the seconds
ExdateParses(prop) == prop.suffix = ""

\* the first EXDATE of the event that strptime rejects: the loop ends there
FirstUnparsed(event) ==
    LET bad == { j \in 1..Len(event.exdates) : ~ExdateParses(event.exdates[j]) }
    IN  IF bad = {} THEN Len(event.exdates) + 1
        ELSE CHOOSE j \in bad : \A k \in bad : j <= k

\* the EXDATE loop: every parsed EXDATE of the event whose date lies in the
\* period is added to the period's one _exception_dates set
CollectExdates(event, p, exc) ==
    exc \cup { ParseExdate(event.exdates[i]) : i \in
                 { j \in 1..(FirstUnparsed(event) - 1) :
                     /\ p.start_date <= ParseExdate(event.exdates[j]).date
                     /\ ParseExdate(event.exdates[j]).date <= p.end_date } }

\* rrulestr(rrule_prop.value, dtstart=...) raises ValueError on a malformed text
RuleParses(rrule) == rrule # "MALFORMED"

RuleStep(rrule) == IF rrule = "WEEKLY" THEN 7 ELSE 1

\* rule.between(period_start, period_end, inc=True), ascending: the instants
\* begin + k * step (k >= 0) from start_date 00:00 to end_date 23:59:59.999999
RuleBetween(event, from_date, to_date) ==
    LET step  == RuleStep(event.rrule)
        first == IF from_date <= event.begin.date THEN event.begin.date
                 ELSE from_date + ((event.begin.date - from_date) % step)
        count == IF first > to_date THEN 0 ELSE ((to_date - first) \div step) + 1
    IN  [k \in 1..count |-> [date |-> first + (k - 1) * step, min |-> event.begin.min]]

\* the tuple appended for one occurrence of a recurring event
RecurringTuple(occ_start, event, id, color, p) ==
    LET occ_end == AddMinutes(occ_start, event.duration)
        start_minutes == IF occ_start.date < p.start_date THEN 0 ELSE occ_start.min
        end_minutes   == IF occ_end.date > p.end_date THEN MinutesPerDay ELSE occ_end.min
    IN  [date |-> occ_start.date, start_minutes |-> start_minutes,
         end_minutes |-> end_minutes, event |-> id, color |-> color]

\* the loop over rule.between: occurrences found in _exception_dates are skipped
RECURSIVE RecurringTuples(_, _, _, _, _, _)
RecurringTuples(occs, event, id, color, p, exc) ==
    IF occs = << >> THEN << >>
    ELSE IF Head(occs) \in exc
         THEN RecurringTuples(Tail(occs), event, id, color, p, exc)
         ELSE << RecurringTuple(Head(occs), event, id, color, p) >>
              \o RecurringTuples(Tail(occs), event, id, color, p, exc)

\* the non-recurring branch: no tuple when the event ends before the period or
\* begins after it, else one tuple with the event's own date and times of day
NonRecurringTuples(event, id, color, p) ==
    IF EventEnd(event).date < p.start_date \/ event.begin.date > p.end_date
    THEN << >>
    ELSE << [date |-> event.begin.date, start_minutes |-> event.begin.min,
             end_minutes |-> EventEnd(event).min, event |-> id, color |-> color] >>

\* one iteration of `for event in calendar.events`: acc = [exc, out, raised];
\* nothing in timed_events catches what rrulestr or strptime raises
ScanEvent(event, id, color, p, acc) ==
    IF event.all_day THEN acc
    ELSE IF event.rrule # ""
         THEN IF ~RuleParses(event.rrule)
              THEN [acc EXCEPT !.raised = "ValueError"]
              ELSE LET exc == CollectExdates(event, p, acc.exc)
                   IN  IF FirstUnparsed(event) <= Len(event.exdates)
                       THEN [acc EXCEPT !.exc = exc, !.raised = "ValueError"]
                       ELSE [exc |-> exc,
                             out |-> acc.out \o RecurringTuples(
                                        RuleBetween(event, p.start_date, p.end_date),
                                        event, id, color, p, exc),
                             raised |-> NoError]
         ELSE [acc EXCEPT !.out = acc.out \o NonRecurringTuples(event, id, color, p)]

RECURSIVE ScanEvents(_, _, _, _, _, _)
ScanEvents(events, ci, ei, color, p, acc) ==
    IF ei > Len(events) \/ acc.raised # NoError THEN acc
    ELSE ScanEvents(events, ci, ei + 1, color, p,
                    ScanEvent(events[ei], << ci, ei >>, color, p, acc))

\* `for calendar, color in zip(self._calendars, self._calendar_colors)`
RECURSIVE ScanCalendars(_, _, _, _)
ScanCalendars(cals, ci, p, acc) ==
    IF ci > Min(Len(cals), Len(p.calendar_colors)) \/ acc.raised # NoError THEN acc
    ELSE ScanCalendars(cals, ci + 1, p,
                       ScanEvents(cals[ci], ci, 1, p.calendar_colors[ci], p, acc))

\* key=lambda item: (item[0], item[1], item[2]), compared as tuples
KeyLess(a, b) ==
    \/ a.date < b.date
    \/ a.date = b.date /\ a.start_minutes < b.start_minutes
    \/ a.date = b.date /\ a.start_minutes = b.start_minutes /\ a.end_minutes < b.end_minutes

\* the insertion below with t put before the elements of equal key
RECURSIVE InsertSortedBeforeEqual(_, _)
InsertSortedBeforeEqual(sorted, t) ==
    IF sorted = << >> THEN << t >>
    ELSE IF ~KeyLess(Head(sorted), t) THEN << t >> \o sorted
         ELSE << Head(sorted) >> \o InsertSortedBeforeEqual(Tail(sorted), t)

\* list.sort is stable: t goes behind every element whose key is not greater
RECURSIVE InsertSorted(_, _)
InsertSorted(sorted, t) ==
    IF sorted = << >> THEN << t >>
    ELSE IF KeyLess(t, Head(sorted)) THEN << t >> \o sorted
         ELSE << Head(sorted) >> \o InsertSorted(Tail(sorted), t)

RECURSIVE SortTuples(_, _)
SortTuples(todo, sorted) ==
    IF todo = << >> THEN sorted
    ELSE SortTuples(Tail(todo), InsertSorted(sorted, Head(todo)))

\* Period.timed_events: the list returned, _exception_dates as it leaves it,
\* and the exception it leaves with instead of returning, or NoError
TimedEvents(cals, p) ==
    LET acc == ScanCalendars(cals, 1, p, [exc |-> p.exception_dates, out |-> << >>,
                                          raised |-> NoError])
    IN  [events |-> IF acc.raised = NoError THEN SortTuples(acc.out, << >>) ELSE << >>,
         exc |-> acc.exc, raised |-> acc.raised]

(***************************************************************************)
(* Event.capture_recurrences (fadable_calendar/event.py)                   *)
(***************************************************************************)
\* a <= b on datetimes
DtLeq(a, b) == a.date < b.date \/ (a.date = b.date /\ a.min <= b.min)

\* capture_recurrences(from_dt, to_dt) of a timed event: the list returned and
\* the exception it leaves with instead (recurrence_rule calls rrulestr)
CaptureRecurrences(event, from_dt, to_dt) ==
    IF event.rrule = ""
    THEN [occurrences |->
             IF \/ DtLeq(from_dt, event.begin) /\ DtLeq(event.begin, to_dt)
                \/ DtLeq(from_dt, EventEnd(event)) /\ DtLeq(EventEnd(event), to_dt)
             THEN << event.begin >> ELSE << >>,
          raised |-> NoError]
    ELSE IF ~RuleParses(event.rrule)
         THEN [occurrences |-> << >>, raised |-> "ValueError"]
         ELSE LET InRange(occ) == DtLeq(from_dt, occ) /\ DtLeq(occ, to_dt)
              IN  [occurrences |->
                       SelectSeq(RuleBetween(event, from_dt.date, to_dt.date), InRange),
                   raised |-> NoError]

(***************************************************************************)
(* WeekPeriod._generate_day_strip_html: the row assignment                 *)
(***************************************************************************)
\* the scan below with its comparison reversed (row_end >= start_minutes)
RECURSIVE FirstFreeRowReversed(_, _, _)
FirstFreeRowReversed(row_end_times, idx, start_minutes) ==
    IF idx > Len(row_end_times) THEN 0
    ELSE IF row_end_times[idx] >= start_minutes THEN idx
         ELSE FirstFreeRowReversed(row_end_times, idx + 1, start_minutes)

\* the scan below with a row free only after its end (row_end < start_minutes)
RECURSIVE FirstFreeRowStrict(_, _, _)
FirstFreeRowStrict(row_end_times, idx, start_minutes) ==
    IF idx > Len(row_end_times) THEN 0
    ELSE IF row_end_times[idx] < start_minutes THEN idx
         ELSE FirstFreeRowStrict(row_end_times, idx + 1, start_minutes)

\* the scan `for idx, row_end in enumerate(row_end_times)`: the first index
\* whose row end is <= start_minutes, or 0 when there is none
RECURSIVE FirstFreeRow(_, _, _)
FirstFreeRow(row_end_times, idx, start_minutes) ==
    IF idx > Len(row_end_times) THEN 0
    ELSE IF row_end_times[idx] <= start_minutes THEN idx
         ELSE FirstFreeRow(row_end_times, idx + 1, start_minutes)

\* one iteration of the loop over timed_events: st = [row_end_times, rows];
\* row indexes are kept as in the code, from 0
PlaceEvent(t, day, st) ==
    IF t.date # day THEN st
    ELSE LET idx == FirstFreeRow(st.row_end_times, 1, t.start_minutes)
         IN  IF idx # 0
             THEN [row_end_times |-> [st.row_end_times EXCEPT ![idx] = t.end_minutes],
                   rows |-> Append(st.rows, [start_minutes |-> t.start_minutes,
                                             end_minutes |-> t.end_minutes,
                                             event |-> t.event, row_index |-> idx - 1])]
             ELSE [row_end_times |-> Append(st.row_end_times, t.end_minutes),
                   rows |-> Append(st.rows, [start_minutes |-> t.start_minutes,
                                             end_minutes |-> t.end_minutes,
                                             event |-> t.event,
                                             row_index |-> Len(st.row_end_times)])]

RECURSIVE PlaceEvents(_, _, _)
PlaceEvents(tuples, day, st) ==
    IF tuples = << >> THEN st
    ELSE PlaceEvents(Tail(tuples), day, PlaceEvent(Head(tuples), day, st))

\* _generate_day_strip_html(day) over the list timed_events returned
DayStrip(tuples, day) ==
    LET st == PlaceEvents(tuples, day, [row_end_times |-> << >>, rows |-> << >>])
    IN  [day |-> day, rows |-> st.rows,
         total_rows |-> Max(1, Len(st.row_end_times))]

(***************************************************************************)
(* Widgets (widgets.py)                                                    *)
(*                                                                         *)
(* A float is the rational [num, den] with den > 0; the _core values are   *)
(* event counts, and on counts of this size the quotients of doubles       *)
(* compare with 0.8 and 1.5 as the exact quotients do.                     *)
(***************************************************************************)
LOOKBACK == 4

Rat(n, d) == [num |-> n, den |-> d]

\* a >= b, a == b on floats
RatGeq(a, b) == a.num * b.den >= b.num * a.den
RatEq(a, b)  == a.num * b.den = b.num * a.den

RECURSIVE Sum(_)
Sum(values) == IF values = << >> THEN 0 ELSE Head(values) + Sum(Tail(values))

\* sum(lookback_results) / len(lookback_results) if len(lookback_results) > 0 else 1.
AverageLookback(lookback_results) ==
    IF Len(lookback_results) > 0
    THEN Rat(Sum(lookback_results), Len(lookback_results))
    ELSE Rat(1, 1)

\* DensityWidget._calculate_density over the _core values of the periods
CalculateDensity(this_result, lookback_results) ==
    LET average_lookback == AverageLookback(lookback_results)
    IN  IF average_lookback.num > 0
        THEN Rat(this_result * average_lookback.den, average_lookback.num)
        ELSE Rat(1, 1)

\* _get_predicate with the upper threshold exclusive (density > 1.5)
GetPredicateExclusive(density) ==
    IF ~RatGeq(Rat(3, 2), density) THEN "high"
    ELSE IF RatGeq(density, Rat(4, 5)) THEN "normal"
    ELSE "low"

\* DensityWidget._get_predicate
GetPredicate(density) ==
    IF RatGeq(density, Rat(3, 2)) THEN "high"
    ELSE IF RatGeq(density, Rat(4, 5)) THEN "normal"
    ELSE "low"

\* HolidaysCountWidget.get_color_token (value is a count, so a number)
HolidaysColorToken(value) ==
    IF value >= 1 THEN "success" ELSE "neutral"

\* ExceptionsCountWidget.get_color_token (value is a count, so a number)
ExceptionsColorToken(value) ==
    IF value >= 1 THEN "warning"
    ELSE IF value >= 5 THEN "danger"
    ELSE "neutral"

\* EventDensityWidget.render, the loop over range(LOOKBACK): prev_period is
\* replaced by its previous_period and appended, `left` times
RECURSIVE LookbackPeriods(_, _)
LookbackPeriods(prev_period, left) ==
    IF left = 0 THEN << >>
    ELSE LET previous == PreviousPeriod(prev_period)
         IN  << previous >> \o LookbackPeriods(previous, left - 1)

(***************************************************************************)
(* Period store and backend (period_db.py, backend.py)                     *)
(*                                                                         *)
(* A stored object is [gen, period]: gen counts the from_any_date calls    *)
(* the store made for the object's key, so two objects of one key are the  *)
(* same object exactly when their gen is the same.                         *)
(***************************************************************************)
START_OF_WEEK == 0

StoreDays == 3         \* number of consecutive dates offered to render_period_html

\* The dates requested from the backend: Monday 2024-01-01 and the days after
StoreDates == LET first == Ord(2024, 1, 1) IN first .. (first + StoreDays - 1)

StoreKeys == Kinds \X StoreDates

NoObject == [gen |-> 0]
NoGet    == [key |-> << "none", 0 >>, gen |-> 0]
NoState  == [period_type |-> "none"]
NoRender == [around_date |-> 0]
NoWidget == [kind |-> "none"]
NoCounts == [this_result |-> 0, lookback_results |-> << >>]

\* the widgets of BackendState.widget_types by default
WidgetTypes == << "EventDensityWidget", "HolidaysCountWidget", "ExceptionsCountWidget" >>

\* PeriodDB.get that constructs on every call
GetAlways(st, period_type, around_date, colors) ==
    LET key == << period_type, around_date >>
        gen == st.built[key] + 1
    IN  [store     |-> [st.store EXCEPT ![key] =
                          [gen |-> gen,
                           period |-> FromAnyDate(period_type, around_date,
                                                  START_OF_WEEK, colors)]],
         built     |-> [st.built EXCEPT ![key] = gen],
         first_got |-> [st.first_got EXCEPT ![key] = IF @ = 0 THEN gen ELSE @],
         last_got  |-> [key |-> key, gen |-> gen]]

\* PeriodDB.get over st = [store, built, first_got, last_got]: st after the
\* call; the object returned is st.store[key] then
Get(st, period_type, around_date, colors) ==
    LET key == << period_type, around_date >>
    IN  IF st.store[key] = NoObject
        THEN LET gen == st.built[key] + 1
             IN  [store     |-> [st.store EXCEPT ![key] =
                                   [gen |-> gen,
                                    period |-> FromAnyDate(period_type, around_date,
                                                           START_OF_WEEK, colors)]],
                  built     |-> [st.built EXCEPT ![key] = gen],
                  first_got |-> [st.first_got EXCEPT ![key] = IF @ = 0 THEN gen ELSE @],
                  last_got  |-> [key |-> key, gen |-> gen]]
        ELSE [st EXCEPT !.first_got[key] = IF @ = 0 THEN st.store[key].gen ELSE @,
                        !.last_got = [key |-> key, gen |-> st.store[key].gen]]

\* Backend._generate_widgets_html: every widget's render gets the period of
\* (period_type, this_period.start_date) from the store
RECURSIVE WidgetGets(_, _, _, _, _)
WidgetGets(st, i, period_type, start_date, colors) ==
    IF i > Len(WidgetTypes) THEN st
    ELSE WidgetGets(Get(st, period_type, start_date, colors), i + 1,
                    period_type, start_date, colors)

\* no widget has computed anything
NoWidgets ==
    /\ counts = NoCounts
    /\ widget = NoWidget
    /\ lookback_periods = << >>

\* PeriodDB.__init__ and no Backend yet
NoBackend ==
    /\ state = NoState
    /\ store = [key \in StoreKeys |-> NoObject]
    /\ built = [key \in StoreKeys |-> 0]
    /\ first_got = [key \in StoreKeys |-> 0]
    /\ last_got = NoGet
    /\ rendered = NoRender
    /\ assigned = db_colors

(***************************************************************************)
(* The state machine: construction and navigation                          *)
(***************************************************************************)
NotYet  == << >>                           \* with accesses = 0: nothing returned yet
NotRead == { [date |-> 0, min |-> -1] }    \* exception_dates not read yet
NoStrip == [day |-> 0, rows |-> << >>, total_rows |-> 0]
NoRequest == [kind |-> "none"]
NoCapture == [event |-> << 0, 0 >>, occurrences |-> << >>]
NoCall    == [call |-> "", error |-> NoError]

\* Bounds of the exploration
MaxNav == 2            \* navigation steps followed from a constructed Period
NavDays == 400         \* number of consecutive dates offered to from_any_date
MaxAccesses == 2       \* timed_events accesses counted per Period

\* The dates offered to from_any_date when navigation is explored: from
\* 2023-12-01 on, across two year ends, the leap year 2024 and its months.
NavDates == LET first == Ord(2023, 12, 1) IN first .. (first + NavDays - 1)

Fresh ==
    /\ first_timed = NotYet
    /\ last_timed = NotYet
    /\ accesses = 0
    /\ exc_before = {}
    /\ exc_read = NotRead
    /\ strip = NoStrip
    /\ raised = NoCall
    /\ captured = NoCapture

FreshNext ==
    /\ first_timed' = NotYet
    /\ last_timed' = NotYet
    /\ accesses' = 0
    /\ exc_before' = {}
    /\ exc_read' = NotRead
    /\ strip' = NoStrip
    /\ raised' = NoCall
    /\ captured' = NoCapture

\* period_type.from_any_date(any_date, start_of_week, calendars, calendar_colors).
\* A run follows one Period object from its
\* construction on (a second construction would start the same runs again).
Construct(kinds, dates, sows) ==
    /\ period = NoPeriod
    /\ \E kind \in kinds, any_date \in dates, start_of_week \in sows :
         LET r == [kind |-> kind, any_date |-> any_date,
                   start_of_week |-> start_of_week, colors |-> db_colors]
         IN  /\ req' = r
             /\ \E p \in { Build(r) } :
                  /\ period' = p
                  /\ trail' = << p >>
             /\ path' = << >>
    /\ FreshNext
    /\ UNCHANGED << calendars, db_colors, widget_vars, db_vars >>

\* period.next_period
GoNext ==
    /\ period # NoPeriod
    /\ Len(path) < MaxNav
    /\ LET r == StartDateRequest(period.kind, NextStartDate(period), period.calendar_colors)
       IN  /\ period' = NextPeriod(period)
           /\ req' = r
           /\ trail' = Append(trail, NextPeriod(period))
           /\ path' = Append(path, "next")
    /\ FreshNext
    /\ UNCHANGED << calendars, db_colors, widget_vars, db_vars >>

\* period.previous_period
GoPrevious ==
    /\ period # NoPeriod
    /\ Len(path) < MaxNav
    /\ LET r == StartDateRequest(period.kind, PreviousStartDate(period), period.calendar_colors)
       IN  /\ period' = PreviousPeriod(period)
           /\ req' = r
           /\ trail' = Append(trail, PreviousPeriod(period))
           /\ path' = Append(path, "previous")
    /\ FreshNext
    /\ UNCHANGED << calendars, db_colors, widget_vars, db_vars >>

\* EventDensityWidget.render on `period`: the lookback periods are collected,
\* _core counts the timed_events of the period and of each lookback period
\* (fresh objects, dropped after the call), and the density is classified
RenderEventDensity ==
    /\ period # NoPeriod
    /\ \E lookback \in { LookbackPeriods(period, LOOKBACK) } :
       \E this \in { TimedEvents(calendars, period) } :
       \E results \in { [i \in 1..Len(lookback) |-> TimedEvents(calendars, lookback[i])] } :
       \E error \in { IF this.raised # NoError THEN this.raised
                      ELSE IF \E i \in 1..Len(results) : results[i].raised # NoError
                      THEN "ValueError" ELSE NoError } :
         /\ period' = [period EXCEPT !.exception_dates = this.exc]
         /\ exc_before' = period.exception_dates
         /\ raised' = [call |-> "render", error |-> error]
         /\ IF this.raised = NoError
            THEN /\ last_timed' = this.events
                 /\ first_timed' = IF accesses = 0 THEN this.events ELSE first_timed
                 /\ accesses' = Min(accesses + 1, MaxAccesses)
            ELSE UNCHANGED << last_timed, first_timed, accesses >>
         /\ IF error = NoError
            THEN \E c \in { [this_result |-> Len(this.events),
                              lookback_results |->
                                  [i \in 1..Len(results) |-> Len(results[i].events)]] } :
                 \E density \in { CalculateDensity(c.this_result, c.lookback_results) } :
                   /\ lookback_periods' = lookback
                   /\ counts' = c
                   /\ widget' = [kind |-> "event-density", density |-> density,
                                 predicate |-> GetPredicate(density),
                                 this_period |-> period]
            ELSE UNCHANGED << lookback_periods, counts, widget >>
    /\ UNCHANGED << calendars, db_colors, req, trail, path, exc_read, strip,
                    captured, db_vars >>

InitNav ==
    /\ calendars = << >>
    /\ db_colors = << >>
    /\ period = NoPeriod
    /\ req = NoRequest
    /\ trail = << >>
    /\ path = << >>
    /\ Fresh
    /\ NoWidgets
    /\ NoBackend

NextNav ==
    \/ Construct(Kinds, NavDates, 0..6)
    \/ GoNext
    \/ GoPrevious
    \/ RenderEventDensity

SpecNav == InitNav /\ [][NextNav]_vars

(***************************************************************************)
(* The state machine: the accesses of a Period over its calendars          *)
(***************************************************************************)
MaxEvents == 2         \* events in the calendars of a run over EventPool
MaxDayEvents == 3      \* events in the calendar of a run over DayPool

\* 2024-01-01, a Monday: the week of the period the accesses are explored on
WindowStart == Ord(2024, 1, 1)

Timed(date, min, duration) ==
    [begin |-> [date |-> date, min |-> min], duration |-> duration,
     all_day |-> FALSE, rrule |-> "", exdates |-> << >>]

Weekly(date, min, duration) ==
    [begin |-> [date |-> date, min |-> min], duration |-> duration,
     all_day |-> FALSE, rrule |-> "WEEKLY", exdates |-> << >>]

Daily(date, min, duration, exdates) ==
    [begin |-> [date |-> date, min |-> min], duration |-> duration,
     all_day |-> FALSE, rrule |-> "DAILY", exdates |-> exdates]

\* The events a run's calendars are filled from: recurring events with and
\* without EXDATEs, events that span midnight or begin before the week
EventPool ==
    { Timed(WindowStart + 2, 840, 60),       \* Jan 3, 14:00-15:00
      Timed(WindowStart + 2, 1380, 120),     \* Jan 3, 23:00 - Jan 4, 01:00
      Timed(WindowStart - 1, 1380, 120),     \* Dec 31, 23:00 - Jan 1, 01:00
      Daily(WindowStart, 540, 30, << >>),    \* daily 09:00-09:30 from Jan 1
      Daily(WindowStart, 540, 30,            \*   with EXDATE 20240103
            << [date_only |-> TRUE, date |-> WindowStart + 2, min |-> 0, suffix |-> ""] >>),
      Daily(WindowStart, 540, 30,            \*   with EXDATE 20240103T090000
            << [date_only |-> FALSE, date |-> WindowStart + 2, min |-> 540, suffix |-> ""] >>),
      Daily(WindowStart, 1380, 120, << >>),  \* daily 23:00-01:00 from Jan 1
      Weekly(WindowStart - 5, 1080, 60),     \* weekly 18:00-19:00 from Dec 27
      [begin |-> [date |-> WindowStart + 2, min |-> 0], duration |-> MinutesPerDay,
       all_day |-> TRUE, rrule |-> "", exdates |-> << >>] }

\* The events of one day a run's calendar is filled from when the row
\* assignment is explored
DayPool ==
    { Timed(WindowStart + 2, 600, 60),       \* Jan 3, 10:00-11:00
      Timed(WindowStart + 2, 600, 120),      \* Jan 3, 10:00-12:00
      Timed(WindowStart + 2, 630, 60),       \* Jan 3, 10:30-11:30
      Timed(WindowStart + 2, 660, 60),       \* Jan 3, 11:00-12:00
      Timed(WindowStart + 2, 630, 0),        \* Jan 3, 10:30, no duration
      Timed(WindowStart + 2, 1350, 60),      \* Jan 3, 22:30-23:30
      Timed(WindowStart + 2, 1380, 120) }    \* Jan 3, 23:00 - Jan 4, 01:00

SeqsOver(pool, n) == UNION { [1..k -> pool] : k \in 0..n }

\* One calendar, or two non-empty calendars, of at most MaxEvents events
CalendarInputs ==
    { << es >> : es \in SeqsOver(EventPool, MaxEvents) }
    \cup UNION { { << SubSeq(es, 1, k), SubSeq(es, k + 1, Len(es)) >> :
                    k \in 1..(Len(es) - 1) } : es \in SeqsOver(EventPool, MaxEvents) }

\* One calendar of at most MaxDayEvents events of one day
DayInputs == { << es >> : es \in SeqsOver(DayPool, MaxDayEvents) }

Palette(i) == IF i = 1 THEN "#c00001" ELSE "#c00002"

\* period.timed_events
AccessTimedEvents ==
    /\ period # NoPeriod
    /\ accesses < MaxAccesses
    /\ \E r \in { TimedEvents(calendars, period) } :
         /\ period' = [period EXCEPT !.exception_dates = r.exc]
         /\ raised' = [call |-> "timed_events", error |-> r.raised]
         /\ IF r.raised = NoError
            THEN /\ last_timed' = r.events
                 /\ first_timed' = IF accesses = 0 THEN r.events ELSE first_timed
                 /\ accesses' = accesses + 1
            ELSE UNCHANGED << last_timed, first_timed, accesses >>
    /\ exc_before' = period.exception_dates
    /\ UNCHANGED << calendars, db_colors, req, trail, path, exc_read, strip,
                    captured, widget_vars, db_vars >>

\* period.exception_dates
AccessExceptionDates ==
    /\ period # NoPeriod
    /\ exc_read' = period.exception_dates
    /\ UNCHANGED << calendars, db_colors, period, req, trail, path, first_timed,
                    last_timed, accesses, exc_before, strip, raised, captured,
                    widget_vars, db_vars >>

\* period._generate_day_strip_html(day), for a day of the week as generate_html
\* calls it; it reads self.timed_events once
GenerateDayStrip ==
    /\ period # NoPeriod
    /\ period.kind = "week"
    /\ accesses < MaxAccesses
    /\ \E r \in { TimedEvents(calendars, period) } :
         /\ period' = [period EXCEPT !.exception_dates = r.exc]
         /\ raised' = [call |-> "_generate_day_strip_html", error |-> r.raised]
         /\ IF r.raised = NoError
            THEN /\ last_timed' = r.events
                 /\ first_timed' = IF accesses = 0 THEN r.events ELSE first_timed
                 /\ accesses' = accesses + 1
                 /\ \E day \in period.start_date .. period.end_date :
                      strip' = DayStrip(r.events, day)
            ELSE UNCHANGED << last_timed, first_timed, accesses, strip >>
    /\ exc_before' = period.exception_dates
    /\ UNCHANGED << calendars, db_colors, req, trail, path, exc_read, captured,
                    widget_vars, db_vars >>

\* The calendars are loaded and colored before any Period is constructed
InitWith(inputs) ==
    /\ calendars \in inputs
    /\ db_colors = [i \in 1..Len(calendars) |-> Palette(i)]
    /\ period = NoPeriod
    /\ req = NoRequest
    /\ trail = << >>
    /\ path = << >>
    /\ Fresh
    /\ NoWidgets
    /\ NoBackend

Init == InitWith(CalendarInputs)

InitRows == InitWith(DayInputs)

Next ==
    \/ Construct({"week"}, {WindowStart + 2}, {0})
    \/ AccessTimedEvents
    \/ AccessExceptionDates
    \/ GenerateDayStrip

Spec == Init /\ [][Next]_vars

SpecRows == InitRows /\ [][Next]_vars

(***************************************************************************)
(* The state machine: faulty and long events, capture_recurrences          *)
(***************************************************************************)
MaxEdgeEvents == 2     \* events in the calendar of a run over EdgePool

\* The events a run's calendar is filled from when failures and the window
\* test are explored: events that raise on expansion, and events without a
\* rule that lie inside, across, around and outside the week
EdgePool ==
    { [Daily(WindowStart, 480, 30, << >>) EXCEPT !.rrule = "MALFORMED"],
      Daily(WindowStart, 540, 30,            \* EXDATE 20240103T090000Z
            << [date_only |-> FALSE, date |-> WindowStart + 2, min |-> 540,
                suffix |-> "Z"] >>),
      Daily(WindowStart, 600, 30,            \* EXDATE 20240104T100000
            << [date_only |-> FALSE, date |-> WindowStart + 3, min |-> 600,
                suffix |-> ""] >>),
      Timed(WindowStart + 2, 840, 60),       \* Jan 3, 14:00-15:00
      Timed(WindowStart - 7, 600, 14 * MinutesPerDay + 60),  \* Dec 25 - Jan 8
      Timed(WindowStart - 1, 1380, 120),     \* Dec 31, 23:00 - Jan 1, 01:00
      Timed(WindowStart - 1, 1380, 60),      \* Dec 31, 23:00 - Jan 1, 00:00
      Timed(WindowStart + 6, 1380, 120),     \* Jan 7, 23:00 - Jan 8, 01:00
      Timed(WindowStart - 2, 600, 60),       \* Dec 30, 10:00-11:00
      Timed(WindowStart + 7, 0, 60) }        \* Jan 8, 00:00-01:00

EdgeInputs == { << es >> : es \in SeqsOver(EdgePool, MaxEdgeEvents) }

\* event.capture_recurrences(from_dt, to_dt) for a timed event of the
\* calendars over the window of the period: its first to its last instant
Capture ==
    /\ period # NoPeriod
    /\ \E ci \in 1..Len(calendars) : \E ei \in 1..Len(calendars[ci]) :
         /\ ~calendars[ci][ei].all_day
         /\ \E r \in { CaptureRecurrences(calendars[ci][ei],
                          [date |-> period.start_date, min |-> 0],
                          [date |-> period.end_date, min |-> MinutesPerDay - 1]) } :
              /\ raised' = [call |-> "capture_recurrences", error |-> r.raised]
              /\ captured' = IF r.raised = NoError
                             THEN [event |-> << ci, ei >>, occurrences |-> r.occurrences]
                             ELSE captured
    /\ UNCHANGED << calendars, db_colors, period, req, trail, path, first_timed,
                    last_timed, accesses, exc_before, exc_read, strip,
                    widget_vars, db_vars >>

InitEdge == InitWith(EdgeInputs)

NextEdge ==
    \/ Construct({"week"}, {WindowStart + 2}, {0})
    \/ AccessTimedEvents
    \/ AccessExceptionDates
    \/ GenerateDayStrip
    \/ Capture

SpecEdge == InitEdge /\ [][NextEdge]_vars

(***************************************************************************)
(* The state machine: the widgets over the _core values of periods         *)
(***************************************************************************)
MaxCount == 10         \* largest _core value of the current period
MaxLookbackCount == 5  \* largest _core value of a lookback period

\* the _core value of a period and those of at most LOOKBACK earlier periods
CountInputs ==
    { [this_result |-> c, lookback_results |-> l] :
        c \in 0..MaxCount, l \in SeqsOver(0..MaxLookbackCount, LOOKBACK) }

\* EventDensityWidget: _calculate_density, then _get_predicate on its result
EventDensity ==
    /\ \E density \in { CalculateDensity(counts.this_result, counts.lookback_results) } :
         widget' = [kind |-> "event-density", density |-> density,
                    predicate |-> GetPredicate(density)]
    /\ UNCHANGED << calendars, db_colors, period_vars, counts, lookback_periods, db_vars >>

\* HolidaysCountWidget: get_color_token on the count
HolidaysCount ==
    /\ widget' = [kind |-> "holidays-count", count |-> counts.this_result,
                  color_token |-> HolidaysColorToken(counts.this_result)]
    /\ UNCHANGED << calendars, db_colors, period_vars, counts, lookback_periods, db_vars >>

\* ExceptionsCountWidget: get_color_token on the count
ExceptionsCount ==
    /\ widget' = [kind |-> "exceptions-count", count |-> counts.this_result,
                  color_token |-> ExceptionsColorToken(counts.this_result)]
    /\ UNCHANGED << calendars, db_colors, period_vars, counts, lookback_periods, db_vars >>

InitWidgets ==
    /\ calendars = << >>
    /\ db_colors = << >>
    /\ period = NoPeriod
    /\ req = NoRequest
    /\ trail = << >>
    /\ path = << >>
    /\ Fresh
    /\ counts \in CountInputs
    /\ widget = NoWidget
    /\ lookback_periods = << >>
    /\ NoBackend

NextWidgets ==
    \/ EventDensity
    \/ HolidaysCount
    \/ ExceptionsCount

SpecWidgets == InitWidgets /\ [][NextWidgets]_vars

(***************************************************************************)
(* The state machine: the backend over the period store                    *)
(***************************************************************************)
SowMargin == 1         \* how far outside 0..6 the offered start_of_week values go

OfferedSows == (0 - SowMargin) .. (6 + SowMargin)

\* BackendState(start_of_week, period_type=...): __post_init__ raises
\* ValueError unless 0 <= start_of_week <= 6, and then there is no state
Configure ==
    /\ state = NoState
    /\ \E start_of_week \in OfferedSows, period_type \in Kinds :
         IF 0 <= start_of_week /\ start_of_week <= 6
         THEN /\ state' = [start_of_week |-> start_of_week, period_type |-> period_type]
              /\ raised' = [call |-> "BackendState", error |-> NoError]
         ELSE /\ state' = state
              /\ raised' = [call |-> "BackendState", error |-> "ValueError"]
    /\ UNCHANGED << calendars, db_colors, period, req, trail, path, first_timed,
                    last_timed, accesses, exc_before, exc_read, strip, captured,
                    widget_vars, store, built, first_got, last_got, rendered,
                    assigned >>

\* Backend.render_period_html(around_date) from the store `stored` on: the
\* period is got from the store, every widget gets the period of its
\* start_date and reads its timed_events, then generate_html reads the
\* timed_events of the period (a week) or raises NotImplementedError (a
\* month, a year). The result is [st, store, raised, this_period].
RenderPeriod(stored, period_type, around_date) ==
    LET k1 == << period_type, around_date >>
        k2 == << period_type, stored.store[k1].period.start_date >>
        w  == TimedEvents(calendars, stored.store[k2].period)
    IN  IF w.raised # NoError \/ period_type # "week"
        THEN [st |-> stored,
              store |-> [stored.store EXCEPT ![k2].period.exception_dates = w.exc],
              raised |-> IF w.raised # NoError THEN w.raised ELSE "NotImplementedError",
              this_period |-> stored.store[k1].period]
        ELSE LET store3 == [stored.store EXCEPT ![k2].period.exception_dates = w.exc]
                 g == TimedEvents(calendars, store3[k1].period)
             IN  [st |-> stored,
                  store |-> [store3 EXCEPT ![k1].period.exception_dates = g.exc],
                  raised |-> g.raised,
                  this_period |-> stored.store[k1].period]

RenderPeriodHtml ==
    /\ state # NoState
    /\ \E around_date \in StoreDates :
         \E st1 \in { Get([store |-> store, built |-> built, first_got |-> first_got,
                            last_got |-> last_got],
                           state.period_type, around_date, db_colors) } :
         \E st2 \in { WidgetGets(st1, 1, state.period_type,
                                  st1.store[<< state.period_type, around_date >>]
                                      .period.start_date, db_colors) } :
         \E r \in { RenderPeriod(st2, state.period_type, around_date) } :
            /\ store' = r.store
            /\ built' = r.st.built
            /\ first_got' = r.st.first_got
            /\ last_got' = r.st.last_got
            /\ raised' = [call |-> "render_period_html", error |-> r.raised]
            /\ rendered' = IF r.raised = NoError
                           THEN [around_date |-> around_date, period |-> r.this_period]
                           ELSE rendered
    /\ UNCHANGED << calendars, db_colors, period, req, trail, path, first_timed,
                    last_timed, accesses, exc_before, exc_read, strip, captured,
                    widget_vars, state, assigned >>

\* No calendar, or one calendar with a weekly event and one EXDATE
BackendInputs ==
    { << >>,
      << << [Weekly(WindowStart - 5, 1080, 60) EXCEPT !.exdates =
               << [date_only |-> FALSE, date |-> WindowStart + 2, min |-> 1080,
                   suffix |-> ""] >>] >> >> }

InitBackend ==
    /\ calendars \in BackendInputs
    /\ db_colors = [i \in 1..Len(calendars) |-> Palette(i)]
    /\ period = NoPeriod
    /\ req = NoRequest
    /\ trail = << >>
    /\ path = << >>
    /\ Fresh
    /\ NoWidgets
    /\ NoBackend

NextBackend ==
    \/ Configure
    \/ RenderPeriodHtml
    \/ Construct({"week"}, { Ord(2024, 1, 1) }, OfferedSows)

SpecBackend == InitBackend /\ [][NextBackend]_vars

(***************************************************************************)
(* The state machine: the calendars and colors of the period store         *)
(*                                                                         *)
(* A color the generator yields is random: any of GeneratedColors. A file  *)
(* or a url is the calendar it holds, or Unreadable when reading it raises. *)
(***************************************************************************)
MaxConstructed == 1    \* calendars handed to PeriodDB(...)
MaxGiven == 2          \* colors handed to PeriodDB(...) or to load_ical_files
MaxLoaded == 2         \* files or urls of one load call
MaxStored == 3         \* calendars in the store and files or urls to load, at most

GivenColors == { "#a00001", "#a00002" }
GeneratedColors == { Palette(1), Palette(2) }

StorePool == { << Timed(WindowStart + 2, 840, 60) >>,     \* a calendar: Jan 3, 14:00
               << Timed(WindowStart + 3, 600, 60) >> }    \* a calendar: Jan 4, 10:00
Unreadable == << >>

\* calendar_colors: None, or a list of colors
NoColors == [given |-> FALSE, colors |-> << >>]
ColorInputs == { NoColors } \cup { [given |-> TRUE, colors |-> c] :
                                     c \in SeqsOver(GivenColors, MaxGiven) }

\* PeriodDB.__init__: _calendar_colors, `generated` being what the generator
\* yields, one color per calendar at most
PeriodDBColors(cals, calendar_colors, generated) ==
    LET colors  == IF ~calendar_colors.given THEN SubSeq(generated, 1, Len(cals))
                   ELSE calendar_colors.colors
        missing == Len(cals) - Len(colors)
    IN  IF Len(colors) < Len(cals) THEN colors \o SubSeq(generated, 1, missing)
        ELSE colors

\* load_ical_files from the file i on, over db = [calendars, colors, assigned,
\* raised]: colors_iter is what is left of calendar_colors
RECURSIVE LoadFiles(_, _, _, _, _, _)
LoadFiles(db, filepaths, i, given, colors_iter, generated) ==
    IF i > Len(filepaths) THEN db
    ELSE LET exhausted == ~given \/ colors_iter = << >>
             calendar_color == IF exhausted THEN generated[i] ELSE Head(colors_iter)
             rest == IF exhausted THEN colors_iter ELSE Tail(colors_iter)
         IN  IF filepaths[i] = Unreadable
             THEN [db EXCEPT !.raised = "OSError"]
             ELSE LoadFiles([db EXCEPT !.calendars = Append(@, filepaths[i]),
                                       !.colors = Append(@, calendar_color),
                                       !.assigned = Append(@, calendar_color)],
                            filepaths, i + 1, given, rest, generated)

\* load_from_urls from the url i on
RECURSIVE LoadUrls(_, _, _, _)
LoadUrls(db, urls, i, generated) ==
    IF i > Len(urls) THEN db
    ELSE IF urls[i] = Unreadable
         THEN [db EXCEPT !.raised = "URLError"]
         ELSE LoadUrls([db EXCEPT !.calendars = Append(@, urls[i]),
                                  !.colors = Append(@, generated[i]),
                                  !.assigned = Append(@, generated[i])],
                       urls, i + 1, generated)

LoadInputs == SeqsOver(StorePool \cup { Unreadable }, MaxLoaded) \ { << >> }

ThisDB == [calendars |-> calendars, colors |-> db_colors, assigned |-> assigned,
           raised |-> NoError]

\* period_db.load_ical_files(filepaths, calendar_colors)
LoadIcalFiles ==
    /\ \E filepaths \in { f \in LoadInputs : Len(calendars) + Len(f) <= MaxStored },
          calendar_colors \in ColorInputs :
       \E generated \in [1..Len(filepaths) -> GeneratedColors] :
       \E db \in { LoadFiles(ThisDB, filepaths, 1, calendar_colors.given,
                              calendar_colors.colors, generated) } :
         /\ calendars' = db.calendars
         /\ db_colors' = db.colors
         /\ assigned' = db.assigned
         /\ raised' = [call |-> "load_ical_files", error |-> db.raised]
    /\ UNCHANGED << period, req, trail, path, first_timed, last_timed, accesses,
                    exc_before, exc_read, strip, captured, widget_vars,
                    state, store, built, first_got, last_got, rendered >>

\* period_db.load_from_urls(urls)
LoadFromUrls ==
    /\ \E urls \in { u \in LoadInputs : Len(calendars) + Len(u) <= MaxStored } :
       \E generated \in [1..Len(urls) -> GeneratedColors] :
       \E db \in { LoadUrls(ThisDB, urls, 1, generated) } :
         /\ calendars' = db.calendars
         /\ db_colors' = db.colors
         /\ assigned' = db.assigned
         /\ raised' = [call |-> "load_from_urls", error |-> db.raised]
    /\ UNCHANGED << period, req, trail, path, first_timed, last_timed, accesses,
                    exc_before, exc_read, strip, captured, widget_vars,
                    state, store, built, first_got, last_got, rendered >>

\* PeriodDB(calendars, calendar_colors): every calendar handed in is added
\* with the color at its index
InitStore ==
    /\ \E cals \in SeqsOver(StorePool, MaxConstructed), calendar_colors \in ColorInputs :
       \E generated \in [1..Len(cals) -> GeneratedColors] :
         /\ calendars = cals
         /\ db_colors = PeriodDBColors(cals, calendar_colors, generated)
         /\ assigned = SubSeq(db_colors, 1, Len(cals))
    /\ period = NoPeriod
    /\ req = NoRequest
    /\ trail = << >>
    /\ path = << >>
    /\ Fresh
    /\ NoWidgets
    /\ state = NoState
    /\ store = [key \in StoreKeys |-> NoObject]
    /\ built = [key \in StoreKeys |-> 0]
    /\ first_got = [key \in StoreKeys |-> 0]
    /\ last_got = NoGet
    /\ rendered = NoRender

NextStore ==
    \/ LoadIcalFiles
    \/ LoadFromUrls

SpecStore == InitStore /\ [][NextStore]_vars

(***************************************************************************)
(* Properties                                                              *)
(***************************************************************************)
\* Two ranges [start_minutes, end_minutes) overlap when each starts before
\* the other ends; any two ranges that share a minute do.
Overlap(a, b) ==
    a.start_minutes < b.end_minutes /\ b.start_minutes < a.end_minutes

\* C1: after the row assignment of _generate_day_strip_html, no two
\* occurrences of the day that were given the same row index overlap.
C1_RowsDoNotOverlap ==
    \A i, j \in 1..Len(strip.rows) :
        (i < j /\ strip.rows[i].row_index = strip.rows[j].row_index)
            => ~Overlap(strip.rows[i], strip.rows[j])

\* the day strip of 10:00-11:00, 10:30-11:30 and 11:00-12:00: the third
\* occurrence shares row 0 with the first, the second lies in row 1
C1_Witness ==
    /\ Len(strip.rows) = 3
    /\ [i \in 1..3 |-> << strip.rows[i].start_minutes, strip.rows[i].end_minutes,
                          strip.rows[i].row_index >>]
         = << << 600, 660, 0 >>, << 630, 690, 1 >>, << 660, 720, 0 >> >>

\* C2: previous_period(next_period(P)) has the start_date and end_date of P.
C2_RoundTrip ==
    path = << "next", "previous" >>
        => /\ period.start_date = trail[1].start_date
           /\ period.end_date = trail[1].end_date

\* C3: next_period(P) starts the day after P ends and previous_period(P)
\* ends the day before P starts: no window is skipped, none overlaps P.
C3_AdjacentWindows ==
    Len(path) >= 1
        => LET before == trail[Len(trail) - 1]
           IN  /\ path[Len(path)] = "next"
                    => period.start_date = before.end_date + 1
               /\ path[Len(path)] = "previous"
                    => period.end_date = before.start_date - 1

\* the number of days of the week, month or year that starts on start_date
Span(kind, start_date) ==
    CASE kind = "week"  -> 7
      [] kind = "month" -> DaysInMonth(YearOf(start_date), MonthOf(start_date))
      [] kind = "year"  -> DaysInYear(YearOf(start_date))

\* C4: every constructed Period has end_date = start_date + span - 1 day,
\* the span being 7 days, the days of start_date's month, or 365/366 days.
C4_EndIsStartPlusSpan ==
    period # NoPeriod
        => period.end_date = period.start_date + Span(period.kind, period.start_date) - 1

\* C5: from_any_date yields the canonical start of the period containing
\* any_date: a week starts on weekday start_of_week, at any_date minus
\* ((weekday - start_of_week) mod 7) days; a month on the first of any_date's
\* month; a year on January 1 of any_date's year; and any_date lies in it.
C5_CanonicalStart ==
    period # NoPeriod
        => /\ period.start_date <= req.any_date
           /\ req.any_date <= period.end_date
           /\ req.kind = "week"
                => /\ req.start_of_week \in 0..6
                   /\ req.any_date - period.start_date
                        = (Weekday(req.any_date) - req.start_of_week) % 7
                   /\ Weekday(period.start_date) = req.start_of_week
           /\ req.kind = "month"
                => /\ YearOf(period.start_date) = YearOf(req.any_date)
                   /\ MonthOf(period.start_date) = MonthOf(req.any_date)
                   /\ DayOf(period.start_date) = 1
           /\ req.kind = "year"
                => /\ YearOf(period.start_date) = YearOf(req.any_date)
                   /\ MonthOf(period.start_date) = 1
                   /\ DayOf(period.start_date) = 1

\* a week built by from_any_date for a Tuesday with the week starting on
\* Thursday: the start lies five days back
C5_Witness ==
    /\ period # NoPeriod
    /\ path = << >>
    /\ req.kind = "week"
    /\ req.start_of_week = 3
    /\ Weekday(req.any_date) = 1
    /\ period.start_date = req.any_date - 5

\* C6: every tuple timed_events returns has
\* 0 <= start_minutes <= end_minutes <= 1440.
C6_MinutesInRange ==
    accesses > 0
        => \A i \in 1..Len(last_timed) :
              /\ 0 <= last_timed[i].start_minutes
              /\ last_timed[i].start_minutes <= last_timed[i].end_minutes
              /\ last_timed[i].end_minutes <= MinutesPerDay

\* the event a returned tuple refers to
EventOf(t) == calendars[t.event[1]][t.event[2]]

\* an occurrence matches an EXDATE at the EXDATE's precision: the calendar
\* day of a date-only EXDATE, the instant of one that bears a time
MatchesExdate(t, prop) ==
    /\ t.date = prop.date
    /\ prop.date_only \/ t.start_minutes = prop.min

\* C7: no occurrence timed_events returns for a recurring event matches one
\* of that event's EXDATEs.
C7_ExdatesExcluded ==
    accesses > 0
        => \A i \in 1..Len(last_timed) :
              LET e == EventOf(last_timed[i])
              IN  e.rrule # ""
                    => \A k \in 1..Len(e.exdates) :
                          ~MatchesExdate(last_timed[i], e.exdates[k])

\* the exception instants of all recurring events of all calendars whose
\* date lies in [start_date, end_date]
ExceptionInstantsInWindow(cals, p) ==
    UNION { UNION { CollectExdates(cals[ci][ei], p, {}) :
                      ei \in { k \in 1..Len(cals[ci]) : cals[ci][k].rrule # "" } } :
              ci \in 1..Len(cals) }

\* C8: whatever accesses preceded it, exception_dates returns the exception
\* instants in the window, and an access of timed_events leaves the set as
\* it was.
C8_ExceptionDatesIndependent ==
    /\ exc_read # NotRead => exc_read = ExceptionInstantsInWindow(calendars, period)
    /\ accesses > 0 => period.exception_dates = exc_before

\* C9: every access of timed_events returns the list the first access returned.
C9_Idempotent ==
    accesses >= 2 => last_timed = first_timed

\* the largest number of the day's occurrences that pairwise overlap
CliqueNumber(rows) ==
    LET cliques == { c \in SUBSET (1..Len(rows)) :
                       \A i, j \in c : i # j => Overlap(rows[i], rows[j]) }
    IN  CHOOSE n \in 0..Len(rows) :
            /\ \E c \in cliques : Cardinality(c) = n
            /\ \A c \in cliques : Cardinality(c) <= n

\* C10: the row count of a day is max(1, k), k the largest number of the
\* day's occurrences that pairwise overlap.
C10_RowCountIsCliqueNumber ==
    strip # NoStrip => strip.total_rows = Max(1, CliqueNumber(strip.rows))

\* C11: _calculate_density returns exactly 1.0 whenever the lookback list is
\* empty, whatever the value of the current period, and exactly 1.0 whenever
\* every lookback value is zero; its divisions never have a zero divisor.
C11_DensityDefaultsToOne ==
    widget.kind = "event-density"
        => /\ widget.density.den # 0
           /\ counts.lookback_results = << >> => RatEq(widget.density, Rat(1, 1))
           /\ ( /\ counts.lookback_results # << >>
                /\ \A i \in 1..Len(counts.lookback_results) :
                      counts.lookback_results[i] = 0 )
                => RatEq(widget.density, Rat(1, 1))

\* C12: for a count c and a non-empty lookback list of n values with positive
\* sum s the density is c / (s / n), and its predicate is "low" iff
\* density < 0.8, "normal" iff 0.8 <= density < 1.5, "high" iff density >= 1.5.
C12_DensityClassified ==
    ( /\ widget.kind = "event-density"
      /\ counts.lookback_results # << >>
      /\ Sum(counts.lookback_results) > 0 )
        => LET c == counts.this_result
               s == Sum(counts.lookback_results)
               n == Len(counts.lookback_results)
           IN  /\ widget.density.num * s = c * n * widget.density.den
               /\ widget.predicate = "low"    <=> 5 * c * n < 4 * s
               /\ widget.predicate = "normal" <=> (4 * s <= 5 * c * n /\ 2 * c * n < 3 * s)
               /\ widget.predicate = "high"   <=> 3 * s <= 2 * c * n

\* 10 occurrences against the lookback [5, 5, 5, 5]: density 2.0, "high"
C12_Witness ==
    /\ counts = [this_result |-> 10, lookback_results |-> << 5, 5, 5, 5 >>]
    /\ widget.kind = "event-density"
    /\ RatEq(widget.density, Rat(2, 1))
    /\ widget.predicate = "high"

\* C13: HolidaysCountWidget gives the success token to every count >= 1 and
\* neutral to 0; ExceptionsCountWidget gives neutral to 0, warning to the
\* counts 1..4 and danger to every count >= 5.
C13_CountTokens ==
    /\ widget.kind = "holidays-count"
         => widget.color_token = IF widget.count >= 1 THEN "success" ELSE "neutral"
    /\ widget.kind = "exceptions-count"
         => widget.color_token = IF widget.count = 0 THEN "neutral"
                                 ELSE IF widget.count <= 4 THEN "warning"
                                 ELSE "danger"

\* an event whose expansion raises: a rule text rrulestr rejects, or an
\* EXDATE value strptime rejects
Offending(event) ==
    /\ ~event.all_day
    /\ event.rrule # ""
    /\ ~RuleParses(event.rrule) \/ FirstUnparsed(event) <= Len(event.exdates)

\* date, start_minutes and end_minutes of the tuples of a list
TimesOf(tuples) ==
    [i \in 1..Len(tuples) |->
        << tuples[i].date, tuples[i].start_minutes, tuples[i].end_minutes >>]

\* C14: an access of timed_events completes whatever events the calendars
\* hold, and returns the occurrences of every event but the offending ones:
\* what it returns for the calendars without them.
C14_FailuresIsolated ==
    raised.call \in {"timed_events", "_generate_day_strip_html"}
        => /\ raised.error = NoError
           /\ LET NotOffending(event) == ~Offending(event)
                  healthy == [ci \in 1..Len(calendars) |->
                                 SelectSeq(calendars[ci], NotOffending)]
                  before  == [period EXCEPT !.exception_dates = exc_before]
              IN  TimesOf(last_timed) = TimesOf(TimedEvents(healthy, before).events)

\* C15: the store constructs at most one Period per (period_type, date) key,
\* an entry once made stays and stays the same object, and every get of a
\* key returns the object the first get of that key returned.
C15_InsertOnce ==
    /\ \A key \in StoreKeys :
          /\ built[key] <= 1
          /\ built[key] >= 1 => store[key] # NoObject
          /\ store[key] # NoObject => store[key].gen = built[key]
          /\ first_got[key] # 0 => store[key] # NoObject /\ store[key].gen = first_got[key]
    /\ last_got # NoGet => last_got.gen = first_got[last_got.key]

\* the week of 2024-01-02 was rendered after that of 2024-01-01: the key of
\* 2024-01-01 was got again, by the widgets, and holds its first object
C15_Witness ==
    /\ rendered # NoRender
    /\ rendered.around_date = Ord(2024, 1, 2)
    /\ state.period_type = "week"
    /\ last_got = [key |-> << "week", Ord(2024, 1, 1) >>, gen |-> 1]
    /\ store[<< "week", Ord(2024, 1, 2) >>] # NoObject
    /\ store[<< "week", Ord(2024, 1, 3) >>] # NoObject

\* C16: the week render_period_html renders starts on the weekday
\* BackendState.start_of_week, for every start_of_week 0..6 and every date.
C16_StartOfWeekConsumed ==
    (rendered # NoRender /\ state.period_type = "week")
        => Weekday(rendered.period.start_date) = state.start_of_week

\* C17: a start_of_week outside 0..6 raises and leaves nothing behind: there
\* is no BackendState with one, and a from_any_date call for a week with one
\* yields no Period.
C17_OutOfRangeRejected ==
    /\ state # NoState => state.start_of_week \in 0..6
    /\ (req # NoRequest /\ req.kind = "week" /\ req.start_of_week \notin 0..6)
          => period = NoPeriod

\* the span of the event overlaps the window of the period: it starts in the
\* window, or starts before it and ends in or after it
OverlapsWindow(event, p) ==
    LET window_start == [date |-> p.start_date, min |-> 0]
        window_end   == [date |-> p.end_date, min |-> MinutesPerDay - 1]
    IN  \/ DtLeq(window_start, event.begin) /\ DtLeq(event.begin, window_end)
        \/ ~DtLeq(window_start, event.begin) /\ DtLeq(window_start, EventEnd(event))

\* C18: a timed event without a rule yields exactly one occurrence, with the
\* event's own start, when its span overlaps the window, and none otherwise,
\* from timed_events as from capture_recurrences.
C18_NonRecurringInWindow ==
    /\ accesses > 0
         => \A ci \in 1..Len(calendars) : \A ei \in 1..Len(calendars[ci]) :
               LET event == calendars[ci][ei]
                   mine  == { i \in 1..Len(last_timed) : last_timed[i].event = << ci, ei >> }
               IN  (~event.all_day /\ event.rrule = "")
                     => IF OverlapsWindow(event, period)
                        THEN /\ Cardinality(mine) = 1
                             /\ \A i \in mine :
                                   /\ last_timed[i].date = event.begin.date
                                   /\ last_timed[i].start_minutes = event.begin.min
                        ELSE mine = {}
    /\ captured # NoCapture
         => LET event == calendars[captured.event[1]][captured.event[2]]
            IN  event.rrule = ""
                  => captured.occurrences =
                        IF OverlapsWindow(event, period) THEN << event.begin >> ELSE << >>

\* C19: the rows of a day are assigned first-fit in timed_events order: each
\* occurrence of the day gets the lowest row index whose latest occurrence
\* ends at or before its start_minutes, and the number of rows in use as a
\* new index when there is none.
C19_FirstFit ==
    raised = [call |-> "_generate_day_strip_html", error |-> NoError]
        => /\ LET OnDay(t) == t.date = strip.day
                  todays == SelectSeq(last_timed, OnDay)
              IN  /\ Len(strip.rows) = Len(todays)
                  /\ \A i \in 1..Len(todays) :
                        /\ strip.rows[i].event = todays[i].event
                        /\ strip.rows[i].start_minutes = todays[i].start_minutes
                        /\ strip.rows[i].end_minutes = todays[i].end_minutes
           /\ \A i \in 1..Len(strip.rows) :
                 LET used == { strip.rows[j].row_index : j \in 1..(i - 1) }
                     LastIn(r) == CHOOSE j \in 1..(i - 1) :
                                     /\ strip.rows[j].row_index = r
                                     /\ \A k \in (j + 1)..(i - 1) :
                                           strip.rows[k].row_index # r
                     free == { r \in used :
                                 strip.rows[LastIn(r)].end_minutes
                                     <= strip.rows[i].start_minutes }
                 IN  strip.rows[i].row_index =
                        IF free # {} THEN CHOOSE r \in free : \A q \in free : r <= q
                        ELSE Cardinality(used)

\* 10:00-11:00, 10:30-11:30 and 11:00-12:00 on one day: rows 0, 1, 0, the
\* third starting at the minute the first ends
C19_Witness ==
    /\ raised = [call |-> "_generate_day_strip_html", error |-> NoError]
    /\ strip.total_rows = 2
    /\ [i \in 1..Len(strip.rows) |-> strip.rows[i].row_index] = << 0, 1, 0 >>
    /\ strip.rows[1].start_minutes = 600
    /\ strip.rows[1].end_minutes = strip.rows[3].start_minutes
    /\ strip.rows[2].start_minutes = 630
    /\ strip.rows[2].end_minutes = 690
    /\ strip.rows[3].end_minutes = 720

\* C20: the list timed_events returns is ascending by (date, start_minutes,
\* end_minutes), and tuples equal on the three keep their source order:
\* calendar order, then event order.
C20_SortedStable ==
    accesses > 0
        => \A i, j \in 1..Len(last_timed) :
              i < j
                => LET a == last_timed[i]
                       b == last_timed[j]
                   IN  /\ a.date <= b.date
                       /\ a.date = b.date => a.start_minutes <= b.start_minutes
                       /\ (a.date = b.date /\ a.start_minutes = b.start_minutes)
                             => a.end_minutes <= b.end_minutes
                       /\ ( /\ a.date = b.date
                            /\ a.start_minutes = b.start_minutes
                            /\ a.end_minutes = b.end_minutes )
                             => \/ a.event[1] < b.event[1]
                                \/ a.event[1] = b.event[1] /\ a.event[2] < b.event[2]

\* Jan 3 23:00-01:00 listed before a daily 23:00-01:00 event: the daily
\* occurrences of Jan 1 and Jan 2 come first, that of Jan 3 stays behind
\* the single event of equal key
C20_Witness ==
    /\ accesses > 0
    /\ calendars = << << Timed(WindowStart + 2, 1380, 120),
                         Daily(WindowStart, 1380, 120, << >>) >> >>
    /\ Len(last_timed) = 8
    /\ last_timed[1].event = << 1, 2 >>
    /\ last_timed[3].event = << 1, 1 >>
    /\ last_timed[4].event = << 1, 2 >>
    /\ last_timed[4].date = last_timed[3].date

\* C21: the lookback periods EventDensityWidget.render collects for a Period
\* are LOOKBACK periods of its type, each ending on the day before the one
\* collected before it starts (the first: before the Period itself starts),
\* so they are the periods immediately preceding it, without gap or overlap.
C21_LookbackPrecedes ==
    (widget.kind = "event-density" /\ "this_period" \in DOMAIN widget)
        => /\ Len(lookback_periods) = LOOKBACK
           /\ \A i \in 1..Len(lookback_periods) :
                 LET later == IF i = 1 THEN widget.this_period
                              ELSE lookback_periods[i - 1]
                 IN  /\ lookback_periods[i].kind = later.kind
                     /\ lookback_periods[i].start_date <= lookback_periods[i].end_date
                     /\ lookback_periods[i].end_date = later.start_date - 1

\* C22: every tuple timed_events returns carries an occurrence date inside
\* the window of the Period, start_date <= occurrence_date <= end_date, also
\* the tuple of a non-recurring event that starts before the window and
\* ends inside it.
C22_OccurrenceDatesInWindow ==
    (period # NoPeriod /\ accesses > 0)
        => \A i \in 1..Len(last_timed) :
              /\ period.start_date <= last_timed[i].date
              /\ last_timed[i].date <= period.end_date

\* C23: an occurrence of a recurring event is missing from what timed_events
\* returns only if it matches an EXDATE of that same event: the EXDATEs of
\* the other events of the Period's calendars remove nothing of it, whatever
\* the order of the events and the number of accesses.
C23_ExdatesScopedToEvent ==
    (period # NoPeriod /\ accesses > 0)
        => \A ci \in 1..Len(calendars) : \A ei \in 1..Len(calendars[ci]) :
              LET event == calendars[ci][ei]
                  occs  == RuleBetween(event, period.start_date, period.end_date)
              IN  (event.rrule # "" /\ ~event.all_day)
                    => \A k \in 1..Len(occs) :
                          LET t == [date |-> occs[k].date, start_minutes |-> occs[k].min]
                          IN  \/ \E x \in 1..Len(event.exdates) :
                                    MatchesExdate(t, event.exdates[x])
                              \/ \E i \in 1..Len(last_timed) :
                                    /\ last_timed[i].event = << ci, ei >>
                                    /\ last_timed[i].date = t.date
                                    /\ last_timed[i].start_minutes = t.start_minutes

\* C24: the store holds one color per calendar, the color at index i is the
\* one calendar i was added with, and timed_events of a Period of the store
\* pairs every calendar with that color.
C24_ColorsAligned ==
    /\ Len(db_colors) = Len(calendars)
    /\ \A i \in 1..Len(calendars) : i <= Len(db_colors) /\ db_colors[i] = assigned[i]
    /\ LET got == FromAnyDate("week", WindowStart, START_OF_WEEK, db_colors)
           tuples == TimedEvents(calendars, got).events
       IN  /\ \A ci \in 1..Len(calendars) : \E i \in 1..Len(tuples) : tuples[i].event[1] = ci
           /\ \A i \in 1..Len(tuples) : tuples[i].color = assigned[tuples[i].event[1]]

====
